---- MODULE Spec2Model ----
\* Code Rivals: a weekly ranking of tracked competitive-programming profiles.
\* The repository holds three successive versions of the application:
\*   v1  src/src/App.jsx lines 1-510      (mock data, manual logs)
\*   v3  src/unnamed/part_000             (one platform per user, syncUser)
\*   v2  src/src/App.jsx lines 511-1114   (two platforms per user, ProfileView)
\* Strings that the code inspects character by character (handles, problem
\* ids) are sequences of one-character strings.  Time is counted in ticks;
\* a calendar day holds TicksPerDay ticks and a time zone is an offset in ticks.
EXTENDS Integers, Sequences, FiniteSets, TLC

VARIABLES
  version,      \* which version of App is running: "v2" or "v3"
  users,        \* React state `users`, as of the last render
  pending,      \* state updates queued by async continuations, not yet rendered
  rankedUsers,  \* the useMemo cache of the ranking
  ops,          \* async handlers suspended at an await
  view,         \* activeView / selectedUserId / the mounted ProfileView's state
  now,          \* the clock, in ticks since the epoch (UTC)
  tz,           \* local time = UTC + tz ticks
  events,       \* number of user events (clicks, submits) handled so far
  call          \* the pure-function call under test (function, input, output)

vars == <<version, users, pending, rankedUsers, ops, view, now, tz, events, call>>

-----------------------------------------------------------------------------
\* Bounds of the model

TicksPerDay == 2
MaxUsers == 2
MaxOps == 2
MaxEvents == 5
MaxTicks == 1
MaxSubs == 2
MaxEntries == 2
MaxRecords == 2

-----------------------------------------------------------------------------
\* Generic helpers

Min(S) == CHOOSE x \in S : \A y \in S : x <= y
Max(S) == CHOOSE x \in S : \A y \in S : x >= y

RECURSIVE SumSeq(_)
SumSeq(s) == IF s = <<>> THEN 0 ELSE Head(s) + SumSeq(Tail(s))

\* all sequences over S of length 0..n
SeqsUpTo(S, n) == UNION {[1..k -> S] : k \in 0..n}

-----------------------------------------------------------------------------
\* Strings

LC_URL == <<"l","e","e","t","c","o","d","e",".","c","o","m","/">>
CF_URL == <<"c","o","d","e","f","o","r","c","e","s",".","c","o","m","/",
            "p","r","o","f","i","l","e","/">>
U_SEG  == <<"u","/">>

\* variant: the input is used as typed
noTrim(s) == s

\* String.prototype.trim
trim(s) ==
  LET idx == {i \in 1..Len(s) : s[i] # " "}
  IN  IF idx = {} THEN <<>> ELSE SubSeq(s, Min(idx), Max(idx))

StartsWithAt(s, p, i) ==
  /\ i + Len(p) - 1 <= Len(s)
  /\ SubSeq(s, i, i + Len(p) - 1) = p

NonSlashAt(s, j) == j <= Len(s) /\ s[j] # "/"

\* the greedy run [^\/]+ starting at j
RunEnd(s, j) ==
  LET stops == {k \in j..Len(s) : s[k] = "/"}
  IN  IF stops = {} THEN Len(s) ELSE Min(stops) - 1

NoMatch == [found |-> FALSE, group |-> <<>>]

\* cleanInput.match(/leetcode\.com\/(?:u\/)?([^\/]+)/)
matchLeetCode(s) ==
  LET viaU(i)   == LET p == i + Len(LC_URL)
                   IN  StartsWithAt(s, U_SEG, p) /\ NonSlashAt(s, p + 2)
      direct(i) == NonSlashAt(s, i + Len(LC_URL))
      at == {i \in 1..Len(s) : StartsWithAt(s, LC_URL, i) /\ (viaU(i) \/ direct(i))}
  IN  IF at = {} THEN NoMatch
      ELSE LET i == Min(at)
               p == i + Len(LC_URL)
           IN  IF viaU(i)
               THEN [found |-> TRUE, group |-> SubSeq(s, p + 2, RunEnd(s, p + 2))]
               ELSE [found |-> TRUE, group |-> SubSeq(s, p, RunEnd(s, p))]

\* cleanInput.match(/codeforces\.com\/profile\/([^\/]+)/)
matchCodeforces(s) ==
  LET at == {i \in 1..Len(s) : StartsWithAt(s, CF_URL, i) /\ NonSlashAt(s, i + Len(CF_URL))}
  IN  IF at = {} THEN NoMatch
      ELSE LET p == Min(at) + Len(CF_URL)
           IN  [found |-> TRUE, group |-> SubSeq(s, p, RunEnd(s, p))]

extractHandle(input, platform) ==
  IF input = <<>> THEN <<>>
  ELSE LET cleanInput == trim(input)
       IN  CASE platform = "LeetCode" ->
                  LET m == matchLeetCode(cleanInput)
                  IN  IF m.found THEN m.group ELSE cleanInput
             [] platform = "Codeforces" ->
                  LET m == matchCodeforces(cleanInput)
                  IN  IF m.found THEN m.group ELSE cleanInput
             [] OTHER -> cleanInput

-----------------------------------------------------------------------------
\* Dates.  A calendar day is numbered in days since 1970-01-01; a date string
\* "YYYY-MM-DD" is held as its year, month and day of the month; "Invalid Date"
\* is a date string too.

isLeap(y) == (y % 4 = 0 /\ y % 100 # 0) \/ y % 400 = 0

\* the day number of 1 January of year y
dayFromYear(y) ==
  365 * (y - 1970) + ((y - 1969) \div 4) - ((y - 1901) \div 100) + ((y - 1601) \div 400)

daysInMonth(y, m) ==
  IF m = 2 THEN (IF isLeap(y) THEN 29 ELSE 28)
  ELSE IF m \in {4, 6, 9, 11} THEN 30 ELSE 31

RECURSIVE daysBeforeMonth(_, _)
daysBeforeMonth(y, m) ==
  IF m = 1 THEN 0 ELSE daysBeforeMonth(y, m - 1) + daysInMonth(y, m - 1)

\* new Date(y, m - 1, d) and Date.prototype.setDate(d): the day of the month may
\* lie outside the month, the date then falls in a neighbouring month
dayOfYMD(y, m, d) == dayFromYear(y) + daysBeforeMonth(y, m) + d - 1

\* the years the model's clock can show
CalendarYears == 1969..1972

\* the calendar: year, month and day of the month of every day of CalendarYears
Calendar ==
  [n \in dayFromYear(1969)..(dayFromYear(1973) - 1) |->
     LET y == CHOOSE yy \in CalendarYears : dayFromYear(yy) <= n /\ n < dayFromYear(yy + 1)
         m == CHOOSE mm \in 1..12 :
                /\ dayOfYMD(y, mm, 1) <= n
                /\ n < dayOfYMD(y, mm, 1) + daysInMonth(y, mm)
     IN  [valid |-> TRUE, y |-> y, m |-> m, d |-> n - dayOfYMD(y, m, 1) + 1]]

\* getFullYear, getMonth() + 1 and getDate of a calendar day
yearOfDay(n) == Calendar[n].y
monthOfDay(n) == Calendar[n].m
dateOfDay(n) == Calendar[n].d

\* the date string of a calendar day
DateOf(n) == Calendar[n]
InvalidDateStr == [valid |-> FALSE, y |-> 0, m |-> 0, d |-> 0]

\* new Date().toLocaleDateString('en-CA') / new Date(ms).toLocaleDateString('en-CA')
localDay(t, off) == (t + off) \div TicksPerDay
toLocaleDateString(t, off) == DateOf(localDay(t, off))

\* new Date(ms).toISOString().split('T')[0]
toISODate(t) == DateOf(t \div TicksPerDay)

\* Date.prototype.getDay of a calendar day: 0 = Sunday (1970-01-01 was a Thursday)
getDay(day) == (day + 4) % 7

\* local midnight of a calendar day, as a time
localMidnight(day, off) == day * TicksPerDay - off

\* variant: the offset is 1 on every day, Sunday included
getStartOfWeekNoSunday(t, off) ==
  LET d    == localDay(t, off)
      diff == dateOfDay(d) - getDay(d) + 1
  IN  localMidnight(dayOfYMD(yearOfDay(d), monthOfDay(d), diff), off)

\* d = new Date(now.getFullYear(), now.getMonth(), now.getDate());
\* d.setDate(d.getDate() - day + (day === 0 ? -6 : 1))
getStartOfWeek(t, off) ==
  LET d    == localDay(t, off)
      day  == getDay(d)
      diff == dateOfDay(d) - day + (IF day = 0 THEN -6 ELSE 1)
  IN  localMidnight(dayOfYMD(yearOfDay(d), monthOfDay(d), diff), off)

\* endOfWeek.setDate(endOfWeek.getDate() + 7)
endOfWeek(t, off) == getStartOfWeek(t, off) + 7 * TicksPerDay

\* variant: the end of the window is compared with <=
isDateInCurrentWeekInclusive(dateStr, t, off) ==
  IF ~dateStr.valid THEN FALSE
  ELSE LET date == localMidnight(dayOfYMD(dateStr.y, dateStr.m, dateStr.d), off)
       IN  date >= getStartOfWeek(t, off) /\ date <= endOfWeek(t, off)

\* v2: the date string is split into y, m, d and read as a local day
isDateInCurrentWeek(dateStr, t, off) ==
  IF ~dateStr.valid THEN FALSE
  ELSE LET date == localMidnight(dayOfYMD(dateStr.y, dateStr.m, dateStr.d), off)
       IN  date >= getStartOfWeek(t, off) /\ date < endOfWeek(t, off)

\* v1, v3: new Date(dateStr) reads "YYYY-MM-DD" as midnight UTC
isDateInCurrentWeekUTC(dateStr, t, off) ==
  IF ~dateStr.valid THEN FALSE
  ELSE LET date == dayOfYMD(dateStr.y, dateStr.m, dateStr.d) * TicksPerDay
       IN  date >= getStartOfWeek(t, off) /\ date < endOfWeek(t, off)

-----------------------------------------------------------------------------
\* Values of the platform APIs.
\* A raw timestamp is a number of ticks ("num"), absent ("undefined"), a value
\* that is no number ("nan") or a number outside the range of Date ("huge").

Num(v) == [kind |-> "num", v |-> v]
TsUndefined == [kind |-> "undefined", v |-> 0]
TsNaN == [kind |-> "nan", v |-> 0]
TsHuge == [kind |-> "huge", v |-> 0]

\* PlatformStats as stored under user.data.<platform>; the key may be absent
\* (undefined) or hold null
Stats(total, hist) == [tag |-> "stats", totalSolved |-> total, history |-> hist]
Null == [tag |-> "null", totalSolved |-> 0, history |-> <<>>]
Undefined == [tag |-> "undefined", totalSolved |-> 0, history |-> <<>>]

\* a stored value is truthy exactly when it is an object
Truthy(d) == d.tag = "stats"

\* getLocalDate(timestamp), evaluated at time t in zone off
getLocalDate(ts, t, off) ==
  IF ts.kind \in {"undefined", "nan"} \/ (ts.kind = "num" /\ ts.v = 0)
  THEN toLocaleDateString(t, off)
  ELSE IF ts.kind = "huge" THEN InvalidDateStr
  ELSE toLocaleDateString(ts.v, off)

\* parseInt(ts) of a calendar key
parseIntKey(ts) == IF ts.kind = "undefined" THEN TsNaN ELSE ts

\* `if (sub.creationTimeSeconds)`
TruthyTs(ts) == ~(ts.kind = "undefined" \/ (ts.kind = "num" /\ ts.v = 0))

\* problemId of v2: `${contestId}-${index}`
problemId(sub) == sub.contestId \o <<"-">> \o sub.index

\* problemId of v3: `${contestId}${index}`
problemId3(sub) == sub.contestId \o sub.index

\* dailySolved[date].add(problemId), keys kept in insertion order
addDaily(daily, date, pid) ==
  IF \E i \in 1..Len(daily) : daily[i].date = date
  THEN [i \in 1..Len(daily) |->
          IF daily[i].date = date
          THEN [daily[i] EXCEPT !.ids = @ \cup {pid}]
          ELSE daily[i]]
  ELSE Append(daily, [date |-> date, ids |-> {pid}])

\* the body of data.result.forEach of v2, folded over the submissions
RECURSIVE cfFold(_, _, _, _)
cfFold(subs, acc, t, off) ==
  IF subs = <<>> THEN acc
  ELSE LET sub == Head(subs)
           next ==
             IF sub.verdict = "OK"
             THEN [totalUnique |-> acc.totalUnique \cup {problemId(sub)},
                   dailySolved |->
                     IF TruthyTs(sub.ts)
                     THEN addDaily(acc.dailySolved, getLocalDate(sub.ts, t, off),
                                   problemId(sub))
                     ELSE acc.dailySolved]
             ELSE acc
       IN  cfFold(Tail(subs), next, t, off)

\* v2 fetchCodeforcesData: the response is what fetch and response.json() gave
fetchCodeforcesData(resp, t, off) ==
  IF resp.net # "ok" \/ resp.status # "OK" \/ ~resp.hasResult THEN Null
  ELSE LET acc == cfFold(resp.result, [totalUnique |-> {}, dailySolved |-> <<>>], t, off)
       IN  Stats(Cardinality(acc.totalUnique),
                 [i \in 1..Len(acc.dailySolved) |->
                    [date |-> acc.dailySolved[i].date,
                     count |-> Cardinality(acc.dailySolved[i].ids)]])

\* v2 fetchLeetCodeData
UndefinedTotal == -1

fetchLeetCodeData(resp, t, off) ==
  IF resp.net # "ok" \/ resp.status # "success" THEN Null
  ELSE LET cal == IF resp.hasCalendar THEN resp.calendar ELSE <<>>
       IN  Stats(IF resp.hasTotal THEN resp.totalSolved ELSE UndefinedTotal,
                 [i \in 1..Len(cal) |->
                    [date |-> getLocalDate(parseIntKey(cal[i].ts), t, off),
                     count |-> cal[i].count]])

\* v3: historyMap[date] = (historyMap[date] || 0) + 1, keys in insertion order
bumpDay(hist, date) ==
  IF \E i \in 1..Len(hist) : hist[i].date = date
  THEN [i \in 1..Len(hist) |->
          IF hist[i].date = date THEN [hist[i] EXCEPT !.count = @ + 1] ELSE hist[i]]
  ELSE Append(hist, [date |-> date, count |-> 1])

\* new Date(creationTimeSeconds * 1000).toISOString() throws on an invalid date
isoThrows(ts) == ts.kind \in {"undefined", "nan", "huge"}

RECURSIVE cfFold3(_, _)
cfFold3(subs, acc) ==
  IF subs = <<>> \/ acc.threw THEN acc
  ELSE LET sub == Head(subs)
           next ==
             IF sub.verdict = "OK"
             THEN IF isoThrows(sub.ts)
                  THEN [acc EXCEPT !.threw = TRUE]
                  ELSE [solvedSet  |-> acc.solvedSet \cup {problemId3(sub)},
                        historyMap |-> bumpDay(acc.historyMap, toISODate(sub.ts.v)),
                        threw      |-> FALSE]
             ELSE acc
       IN  cfFold3(Tail(subs), next)

\* v3 fetchCodeforcesData
fetchCodeforcesData3(resp) ==
  IF resp.net # "ok" \/ resp.status # "OK" \/ ~resp.hasResult THEN Null
  ELSE LET acc == cfFold3(resp.result,
                          [solvedSet |-> {}, historyMap |-> <<>>, threw |-> FALSE])
       IN  IF acc.threw THEN Null
           ELSE Stats(Cardinality(acc.solvedSet), acc.historyMap)

\* v3 fetchLeetCodeData: the lifetime total of the matched user, no history
fetchLeetCodeData3(resp) ==
  IF resp.net # "ok" \/ resp.status # "success" \/ ~resp.hasTotal THEN Null
  ELSE Stats(resp.totalSolved, <<>>)


-----------------------------------------------------------------------------
\* Ranking and merging (pure functions of a collection, a time and a zone)

\* history.filter(h => isDateInCurrentWeek(h.date)).reduce((acc, curr) => acc + curr.count, 0)
RECURSIVE sumWeeklyOf(_, _, _)
sumWeeklyOf(history, t, off) ==
  IF history = <<>> THEN 0
  ELSE (IF isDateInCurrentWeek(Head(history).date, t, off) THEN Head(history).count ELSE 0)
       + sumWeeklyOf(Tail(history), t, off)

\* sumWeekly(user.data?.<platform>?.history): `if (!history) return 0`
sumWeekly(d, t, off) == IF ~Truthy(d) THEN 0 ELSE sumWeeklyOf(d.history, t, off)

\* variant: the score counts the LeetCode history only
scoreLeetCodeOnly(user, t, off) == sumWeekly(user.data.leetcode, t, off)

calculateWeeklyScore(user, t, off) ==
  sumWeekly(user.data.leetcode, t, off) + sumWeekly(user.data.codeforces, t, off)

\* { ...user, weeklyScore: score }
withScore(user, score) ==
  [f \in DOMAIN user \cup {"weeklyScore"} |->
     IF f = "weeklyScore" THEN score ELSE user[f]]

\* the ranked entry without its weeklyScore
withoutScore(r) == [f \in DOMAIN r \ {"weeklyScore"} |-> r[f]]

\* variant: an element is inserted in front of the elements it ties with
insertBeforeTies(sorted, x) ==
  LET k == Cardinality({i \in 1..Len(sorted) : sorted[i].weeklyScore > x.weeklyScore})
  IN  SubSeq(sorted, 1, k) \o <<x>> \o SubSeq(sorted, k + 1, Len(sorted))

\* variant: the comparator is a.weeklyScore - b.weeklyScore
insertAscending(sorted, x) ==
  LET k == Cardinality({i \in 1..Len(sorted) : sorted[i].weeklyScore <= x.weeklyScore})
  IN  SubSeq(sorted, 1, k) \o <<x>> \o SubSeq(sorted, k + 1, Len(sorted))

\* Array.prototype.sort((a, b) => b.weeklyScore - a.weeklyScore): a stable sort,
\* built by inserting each element behind the ones that do not sort after it
insertRanked(sorted, x) ==
  LET k == Cardinality({i \in 1..Len(sorted) : sorted[i].weeklyScore >= x.weeklyScore})
  IN  SubSeq(sorted, 1, k) \o <<x>> \o SubSeq(sorted, k + 1, Len(sorted))

RECURSIVE sortByScore(_, _)
sortByScore(rest, sorted) ==
  IF rest = <<>> THEN sorted
  ELSE sortByScore(Tail(rest), insertRanked(sorted, Head(rest)))

\* v2 rankedUsers (the function inside useMemo)
rankUsers(us, t, off) ==
  sortByScore([i \in 1..Len(us) |-> withScore(us[i], calculateWeeklyScore(us[i], t, off))],
              <<>>)

\* v3: (user.history || []).filter(h => isDateInCurrentWeek(h.date)).reduce(...)
RECURSIVE weeklyCount3(_, _, _)
weeklyCount3(history, t, off) ==
  IF history = <<>> THEN 0
  ELSE (IF isDateInCurrentWeekUTC(Head(history).date, t, off) THEN Head(history).count ELSE 0)
       + weeklyCount3(Tail(history), t, off)

\* v3: (user.manualLogs || []).filter(l => isDateInCurrentWeek(l.date)).length
manualCount3(logs, t, off) ==
  Cardinality({i \in 1..Len(logs) : isDateInCurrentWeekUTC(logs[i].date, t, off)})

weeklyScore3(user, t, off) ==
  weeklyCount3(user.history, t, off) + manualCount3(user.manualLogs, t, off)

\* v3 rankedUsers
rankUsers3(us, t, off) ==
  sortByScore([i \in 1..Len(us) |-> withScore(us[i], weeklyScore3(us[i], t, off))], <<>>)

\* variant: historyMap[entry.date] = entry.count
mergeEntryOverwrite(map, entry) ==
  IF \E i \in 1..Len(map) : map[i].date = entry.date
  THEN [i \in 1..Len(map) |->
          IF map[i].date = entry.date THEN [map[i] EXCEPT !.count = entry.count] ELSE map[i]]
  ELSE Append(map, [date |-> entry.date, count |-> entry.count])

\* historyMap[entry.date] = (historyMap[entry.date] || 0) + entry.count
mergeEntry(map, entry) ==
  IF \E i \in 1..Len(map) : map[i].date = entry.date
  THEN [i \in 1..Len(map) |->
          IF map[i].date = entry.date
          THEN [map[i] EXCEPT !.count = @ + entry.count]
          ELSE map[i]]
  ELSE Append(map, [date |-> entry.date, count |-> entry.count])

RECURSIVE mergeFold(_, _)
mergeFold(map, hist) ==
  IF hist = <<>> THEN map ELSE mergeFold(mergeEntry(map, Head(hist)), Tail(hist))

\* merge(hist): `if (!hist) return`
merge(map, d) == IF ~Truthy(d) THEN map ELSE mergeFold(map, d.history)

\* the historyMap that combinedHistory builds: leetcode first, then codeforces
historyMap(user) == merge(merge(<<>>, user.data.leetcode), user.data.codeforces)


-----------------------------------------------------------------------------
\* The application state (v2: src/src/App.jsx 880-960, ProfileView 668-747;
\* v3: src/unnamed/part_000 134-214)

StartDay == 3

\* first tick (UTC) of the day the model starts on
T0 == StartDay * TicksPerDay

TzOffsets == {-1, 0, 1}

\* the zones the application is run in
AppZones == {0, 1}

\* Date.now(): two readings with no tick between them are equal
DateNow == now

NoHandle == <<>>

\* what the user may type into a handle field
LcInputs == {<<>>, LC_URL \o <<"u", "/", "b">>}
CfInputs == {<<>>, CF_URL \o <<"c">>}
Names == {"rival"}

\* handles a v3 user may be added with
Handles3 == {<<>>, <<"a">>}
Platforms3 == {"LeetCode", "Codeforces"}

\* responses the platforms may give while the application runs
Sub(verdict, contestId, index, ts) ==
  [verdict |-> verdict, contestId |-> contestId, index |-> index, ts |-> ts]

CfResponse(net, status, hasResult, result) ==
  [net |-> net, status |-> status, hasResult |-> hasResult, result |-> result]

LcResponse(net, status, hasTotal, total, hasCalendar, calendar) ==
  [net |-> net, status |-> status, hasTotal |-> hasTotal, totalSolved |-> total,
   hasCalendar |-> hasCalendar, calendar |-> calendar]

CfFailed == CfResponse("ok", "FAILED", FALSE, <<>>)
LcFailed == LcResponse("ok", "error", FALSE, 0, FALSE, <<>>)

CfResponses ==
  { CfFailed,
    CfResponse("ok", "OK", TRUE, <<>>),
    CfResponse("ok", "OK", TRUE, <<Sub("OK", <<"1">>, <<"A">>, Num(T0 + TicksPerDay))>>) }

LcResponses ==
  { LcFailed,
    LcResponse("ok", "success", TRUE, 5, TRUE, <<[ts |-> Num(T0), count |-> 2]>>) }

\* what localStorage may hold when the application starts: collections that
\* earlier sessions (adds and syncs before StartDay) left behind
StoredLc == Stats(4, <<[date |-> DateOf(StartDay - 1), count |-> 1]>>)

Stored2A ==
  [id |-> 1, username |-> "rival",
   handles |-> [leetcode |-> <<"a">>, codeforces |-> <<"c">>],
   data |-> [leetcode |-> StoredLc, codeforces |-> Null]]

Stored2B ==
  [id |-> 2, username |-> "rival",
   handles |-> [leetcode |-> <<"b">>, codeforces |-> <<>>],
   data |-> [leetcode |-> Stats(5, <<>>), codeforces |-> Undefined]]

Stored3A ==
  [id |-> 1, username |-> <<"a">>, handle |-> <<"a">>, platform |-> "Codeforces",
   totalSolved |-> 3, streak |-> 0,
   history |-> <<[date |-> DateOf(StartDay - 1), count |-> 3]>>, manualLogs |-> <<>>]

Stored3B ==
  [id |-> 2, username |-> <<"b">>, handle |-> <<"b">>, platform |-> "LeetCode",
   totalSolved |-> 7, streak |-> 0, history |-> <<>>, manualLogs |-> <<>>]

StoredCollections(v) ==
  IF v = "v3" THEN {<<>>, <<Stored3A>>, <<Stored3A, Stored3B>>}
              ELSE {<<>>, <<Stored2A>>, <<Stored2A, Stored2B>>}

InitView ==
  [activeView |-> "dashboard", selectedUserId |-> 0,
   isEditing |-> FALSE, isSyncing |-> FALSE, isLoading |-> FALSE]

NoCall == [fn |-> "none"]

\* users.find(u => u.id === id): the first match, if any
HasUser(us, id) == \E i \in 1..Len(us) : us[i].id = id
findUser(us, id) == us[Min({i \in 1..Len(us) : us[i].id = id})]

\* const selectedUser = users.find(u => u.id === selectedUserId): ProfileView is
\* mounted when the profile view is active and the user is found
Mounted == view.activeView = "profile" /\ HasUser(users, view.selectedUserId)

\* --- queued state updates ------------------------------------------------

\* the handler's `updates` object, and under `fetched` what its awaited fetches
\* returned so far (the handler's local `data`; undefined while not fetched)
NotFetched == [leetcode |-> Undefined, codeforces |-> Undefined]

NoUpdates == [username |-> "", handles |-> [leetcode |-> <<>>, codeforces |-> <<>>],
              data |-> [leetcode |-> Undefined, codeforces |-> Undefined],
              fetched |-> NotFetched]

\* one batch of set-state calls made by a handler when it finishes
Bundle(type, id, full, updates, user, list, clearSync, clearEdit, clearLoading) ==
  [type |-> type, id |-> id, full |-> full, updates |-> updates, user |-> user,
   list |-> list, clearSync |-> clearSync, clearEdit |-> clearEdit,
   clearLoading |-> clearLoading]

NoUser == [id |-> 0]

\* variant: prev.map(u => ({ ...u, ...updates })), the id is not compared
updateEveryUser(prev, id, full, updates) ==
  [i \in 1..Len(prev) |->
     IF full
     THEN [prev[i] EXCEPT !.username = updates.username,
                          !.handles = updates.handles,
                          !.data = updates.data]
     ELSE [prev[i] EXCEPT !.data = updates.data]]

\* variant: an update for an id that is not in the collection inserts a profile
updateOrInsert(prev, id, full, updates) ==
  IF \E i \in 1..Len(prev) : prev[i].id = id
  THEN [i \in 1..Len(prev) |->
          IF prev[i].id = id
          THEN IF full
               THEN [prev[i] EXCEPT !.username = updates.username,
                                    !.handles = updates.handles,
                                    !.data = updates.data]
               ELSE [prev[i] EXCEPT !.data = updates.data]
          ELSE prev[i]]
  ELSE Append(prev, [id |-> id, username |-> updates.username,
                     handles |-> updates.handles, data |-> updates.data])

\* updateUser: prev.map(u => u.id === id ? { ...u, ...updates } : u)
updateUser(prev, id, full, updates) ==
  [i \in 1..Len(prev) |->
     IF prev[i].id = id
     THEN IF full
          THEN [prev[i] EXCEPT !.username = updates.username,
                               !.handles = updates.handles,
                               !.data = updates.data]
          ELSE [prev[i] EXCEPT !.data = updates.data]
     ELSE prev[i]]

\* v3 syncUser's updater: prev.map(u => u.id === userId ? {...u, totalSolved, history} : u)
updateUser3(prev, id, updatedData) ==
  [i \in 1..Len(prev) |->
     IF prev[i].id = id
     THEN [prev[i] EXCEPT !.totalSolved = updatedData.totalSolved,
                          !.history = IF Len(updatedData.history) > 0
                                      THEN updatedData.history
                                      ELSE prev[i].history]
     ELSE prev[i]]

\* users.filter(u => u.id !== id)
filterUser(us, id) == SelectSeq(us, LAMBDA u : u.id # id)

applyBundle(prev, b) ==
  CASE b.type = "update"  -> updateUser(prev, b.id, b.full, b.updates)
    [] b.type = "update3" -> updateUser3(prev, b.id, b.updates)
    [] b.type = "append"  -> Append(prev, b.user)
    [] b.type = "filter"  -> filterUser(prev, b.id)
    [] b.type = "set"     -> b.list
    [] OTHER              -> prev

RECURSIVE applyAll(_, _)
applyAll(prev, bs) ==
  IF bs = <<>> THEN prev ELSE applyAll(applyBundle(prev, Head(bs)), Tail(bs))

setsUsers(bs) == \E i \in 1..Len(bs) : bs[i].type # "flags"

rank(us, t, off) == IF version = "v3" THEN rankUsers3(us, t, off) ELSE rankUsers(us, t, off)

\* variant: the collection itself is scored and sorted (users.forEach / users.sort)
rankInPlace(us, t, off) == [ranked |-> rank(us, t, off), users |-> rank(us, t, off)]

\* the useMemo body as a computation on the array it is given: users.map builds
\* a new array of new objects ({...u, weeklyScore}), sort orders that new
\* array; `users` is the collection as the computation leaves it
rankedUsersMemo(us, t, off) == [ranked |-> rank(us, t, off), users |-> us]

\* A render: every queued update is applied in the order it was queued, the
\* ranking is recomputed when `users` was set (useMemo(..., [users])), and the
\* flags that the finished handlers cleared are cleared.  `v` is the view as
\* the running handler leaves it.
Commit(bs, v) ==
  LET us == applyAll(users, bs)
      memo == rankedUsersMemo(us, now, tz)
  IN  /\ users' = IF setsUsers(bs) THEN memo.users ELSE us
      /\ pending' = <<>>
      /\ rankedUsers' = IF setsUsers(bs) THEN memo.ranked ELSE rankedUsers
      /\ view' = [v EXCEPT
           !.isSyncing = IF \E i \in 1..Len(bs) : bs[i].clearSync THEN FALSE ELSE @,
           !.isEditing = IF \E i \in 1..Len(bs) : bs[i].clearEdit THEN FALSE ELSE @,
           !.isLoading = IF \E i \in 1..Len(bs) : bs[i].clearLoading THEN FALSE ELSE @]


\* --- v2 handlers ---------------------------------------------------------

Op(kind, pc, user, updates, mounted) ==
  [kind |-> kind, pc |-> pc, user |-> user, updates |-> updates, mounted |-> mounted]

RemoveAt(seq, i) == SubSeq(seq, 1, i - 1) \o SubSeq(seq, i + 1, Len(seq))

\* whether the handler awaits a fetch for the platform
\*   manualSync:    if (user.handles?.leetcode)
\*   saveProfile:   if (updates.handles.leetcode && updates.handles.leetcode !== user.handles?.leetcode)
\*   handleAddUser: if (userObj.handles.leetcode)
needsFetch(kind, user, updates, p) ==
  CASE kind = "sync" -> user.handles[p] # NoHandle
    [] kind = "save" -> updates.handles[p] # NoHandle /\ updates.handles[p] # user.handles[p]
    [] OTHER         -> user.handles[p] # NoHandle

\* variant: the handlers end without setIsSyncing(false)
finishKeepsBusy(op) ==
  CASE op.kind = "sync" ->
         Bundle("update", op.user.id, FALSE, op.updates, NoUser, <<>>, FALSE, FALSE, FALSE)
    [] op.kind = "save" ->
         Bundle("update", op.user.id, TRUE, op.updates, NoUser, <<>>, FALSE, op.mounted, FALSE)
    [] OTHER ->
         Bundle("append", 0, FALSE, NoUpdates, [op.user EXCEPT !.data = op.updates.data],
                <<>>, FALSE, FALSE, TRUE)

\* the set-state calls at the end of manualSync, saveProfile and handleAddUser
finish(op) ==
  CASE op.kind = "sync" ->
         Bundle("update", op.user.id, FALSE, op.updates, NoUser, <<>>, op.mounted, FALSE, FALSE)
    [] op.kind = "save" ->
         Bundle("update", op.user.id, TRUE, op.updates, NoUser, <<>>, op.mounted, op.mounted, FALSE)
    [] OTHER ->
         Bundle("append", 0, FALSE, NoUpdates, [op.user EXCEPT !.data = op.updates.data],
                <<>>, FALSE, FALSE, TRUE)

\* a handler runs from the click to its first await, or to its end
begin(kind, user, updates, v) ==
  /\ events < MaxEvents
  /\ events' = events + 1
  /\ IF needsFetch(kind, user, updates, "leetcode")
     THEN /\ Len(ops) < MaxOps
          /\ ops' = Append(ops, Op(kind, "leetcode", user, updates, TRUE))
          /\ Commit(pending, v)
     ELSE IF needsFetch(kind, user, updates, "codeforces")
     THEN /\ Len(ops) < MaxOps
          /\ ops' = Append(ops, Op(kind, "codeforces", user, updates, TRUE))
          /\ Commit(pending, v)
     ELSE /\ ops' = ops
          /\ Commit(Append(pending, finish(Op(kind, "done", user, updates, TRUE))), v)

\* onClick of a user card: setSelectedUserId(u.id); setActiveView('profile')
selectUser(id) ==
  /\ version = "v2"
  /\ view.activeView = "dashboard"
  /\ HasUser(users, id)
  /\ events < MaxEvents
  /\ events' = events + 1
  /\ Commit(pending, [view EXCEPT !.activeView = "profile", !.selectedUserId = id,
                                  !.isEditing = FALSE, !.isSyncing = FALSE])
  /\ UNCHANGED <<version, ops, now, tz, call>>

\* onBack / the logo: setActiveView('dashboard'); ProfileView is unmounted
onBack ==
  /\ version = "v2"
  /\ view.activeView = "profile"
  /\ events < MaxEvents
  /\ events' = events + 1
  /\ ops' = [i \in 1..Len(ops) |-> [ops[i] EXCEPT !.mounted = FALSE]]
  /\ Commit(pending, [view EXCEPT !.activeView = "dashboard",
                                  !.isEditing = FALSE, !.isSyncing = FALSE])
  /\ UNCHANGED <<version, now, tz, call>>

\* the Edit button: setIsEditing(true)
startEdit ==
  /\ version = "v2"
  /\ Mounted
  /\ ~view.isEditing
  /\ events < MaxEvents
  /\ events' = events + 1
  /\ Commit(pending, [view EXCEPT !.isEditing = TRUE])
  /\ UNCHANGED <<version, ops, now, tz, call>>

manualSync ==
  /\ version = "v2"
  /\ Mounted
  /\ ~view.isEditing
  /\ ~view.isSyncing
  /\ LET user == findUser(users, view.selectedUserId)
     IN  begin("sync", user, [NoUpdates EXCEPT !.data = user.data],
               [view EXCEPT !.isSyncing = TRUE])
  /\ UNCHANGED <<version, now, tz, call>>

saveProfile(editName, lcHandle, cfHandle) ==
  /\ version = "v2"
  /\ Mounted
  /\ view.isEditing
  /\ ~view.isSyncing
  /\ LET user == findUser(users, view.selectedUserId)
         updates == [username |-> editName,
                     handles  |-> [leetcode   |-> extractHandle(lcHandle, "LeetCode"),
                                   codeforces |-> extractHandle(cfHandle, "Codeforces")],
                     data     |-> user.data,
                     fetched  |-> NotFetched]
     IN  begin("save", user, updates, [view EXCEPT !.isSyncing = TRUE])
  /\ UNCHANGED <<version, now, tz, call>>

\* v2 handleAddUser: `if (!newUser.name) return`
handleAddUser(name, leetcode, codeforces) ==
  /\ version = "v2"
  /\ view.activeView = "dashboard"
  /\ ~view.isLoading
  /\ name # ""
  /\ Len(applyAll(users, pending)) < MaxUsers
  /\ LET userObj == [id       |-> DateNow,
                     username |-> name,
                     handles  |-> [leetcode   |-> extractHandle(leetcode, "LeetCode"),
                                   codeforces |-> extractHandle(codeforces, "Codeforces")],
                     data     |-> [leetcode |-> Undefined, codeforces |-> Undefined]]
     IN  begin("add", userObj, [NoUpdates EXCEPT !.data = userObj.data],
               [view EXCEPT !.isLoading = TRUE])
  /\ UNCHANGED <<version, now, tz, call>>

\* v2 deleteUser: setUsers(users.filter(u => u.id !== id)); setActiveView('dashboard')
deleteUser ==
  /\ version = "v2"
  /\ Mounted
  /\ ~view.isEditing
  /\ events < MaxEvents
  /\ events' = events + 1
  /\ ops' = [i \in 1..Len(ops) |-> [ops[i] EXCEPT !.mounted = FALSE]]
  /\ Commit(Append(pending,
                   Bundle("set", view.selectedUserId, FALSE, NoUpdates, NoUser,
                          filterUser(users, view.selectedUserId), FALSE, FALSE, FALSE)),
            [view EXCEPT !.activeView = "dashboard", !.isEditing = FALSE,
                         !.isSyncing = FALSE])
  /\ UNCHANGED <<version, now, tz, call>>

\* an awaited fetch of a v2 handler settles: the adapter turns the response
\* into PlatformStats or null and the handler runs on to its next await or end
fetchSettles(i, resp) ==
  /\ version = "v2"
  /\ i \in 1..Len(ops)
  /\ LET op   == ops[i]
         p    == op.pc
         data == IF p = "leetcode" THEN fetchLeetCodeData(resp, now, tz)
                                   ELSE fetchCodeforcesData(resp, now, tz)
         updates == IF op.kind = "add" \/ Truthy(data)
                    THEN [op.updates EXCEPT !.data[p] = data, !.fetched[p] = data]
                    ELSE [op.updates EXCEPT !.fetched[p] = data]
     IN  /\ resp \in (IF p = "leetcode" THEN LcResponses ELSE CfResponses)
         /\ IF p = "leetcode" /\ needsFetch(op.kind, op.user, updates, "codeforces")
            THEN /\ ops' = [ops EXCEPT ![i] = [op EXCEPT !.pc = "codeforces",
                                                          !.updates = updates]]
                 /\ pending' = pending
            ELSE /\ ops' = RemoveAt(ops, i)
                 /\ pending' = Append(pending, finish([op EXCEPT !.updates = updates]))
  /\ UNCHANGED <<version, users, rankedUsers, view, now, tz, events, call>>

\* React renders the updates queued by async continuations
Render ==
  /\ pending # <<>>
  /\ Commit(pending, view)
  /\ UNCHANGED <<version, ops, now, tz, events, call>>

\* time passes
Tick ==
  /\ now < T0 + TicksPerDay - 1 + MaxTicks
  /\ now' = now + 1
  /\ UNCHANGED <<version, users, pending, rankedUsers, ops, view, tz, events, call>>


\* --- v3 handlers ---------------------------------------------------------

User3(id, handle, platform, total, history) ==
  [id |-> id, username |-> handle, handle |-> handle, platform |-> platform,
   totalSolved |-> total, streak |-> 0, history |-> history, manualLogs |-> <<>>]

\* what syncUser does up to its await, for the user found in the rendered list
syncOp(userId) == Op("sync3", findUser(users, userId).platform, findUser(users, userId),
                     NoUpdates, FALSE)

\* the Sync button of a card: syncUser(u.id)
syncUser(userId) ==
  /\ version = "v3"
  /\ HasUser(users, userId)
  /\ events < MaxEvents
  /\ events' = events + 1
  /\ Len(ops) < MaxOps
  /\ ops' = Append(ops, syncOp(userId))
  /\ Commit(pending, view)
  /\ UNCHANGED <<version, now, tz, call>>

\* Refresh All: users.forEach(u => syncUser(u.id))
refreshAll ==
  /\ version = "v3"
  /\ users # <<>>
  /\ events < MaxEvents
  /\ events' = events + 1
  /\ Len(ops) + Len(users) <= MaxOps
  /\ ops' = ops \o [i \in 1..Len(users) |-> syncOp(users[i].id)]
  /\ Commit(pending, view)
  /\ UNCHANGED <<version, now, tz, call>>

\* v3 handleAddUser: `if (!newUserHandle) return`
handleAddUser3(newUserHandle, newUserPlatform) ==
  /\ version = "v3"
  /\ ~view.isLoading
  /\ newUserHandle # <<>>
  /\ Len(applyAll(users, pending)) < MaxUsers
  /\ events < MaxEvents
  /\ events' = events + 1
  /\ Len(ops) < MaxOps
  /\ ops' = Append(ops, Op("add3", newUserPlatform,
                           User3(0, newUserHandle, newUserPlatform, 0, <<>>),
                           NoUpdates, FALSE))
  /\ Commit(pending, [view EXCEPT !.isLoading = TRUE])
  /\ UNCHANGED <<version, now, tz, call>>

\* the trash button of a card: setUsers(prev => prev.filter(user => user.id !== u.id))
removeUser(id) ==
  /\ version = "v3"
  /\ HasUser(users, id)
  /\ events < MaxEvents
  /\ events' = events + 1
  /\ Commit(Append(pending, Bundle("filter", id, FALSE, NoUpdates, NoUser, <<>>,
                                   FALSE, FALSE, FALSE)), view)
  /\ UNCHANGED <<version, ops, now, tz, call>>

\* the awaited fetch of syncUser or of v3 handleAddUser settles
fetchSettles3(i, resp) ==
  /\ version = "v3"
  /\ i \in 1..Len(ops)
  /\ LET op   == ops[i]
         data == IF op.pc = "Codeforces" THEN fetchCodeforcesData3(resp)
                                         ELSE fetchLeetCodeData3(resp)
     IN  /\ resp \in (IF op.pc = "Codeforces" THEN CfResponses ELSE LcResponses)
         /\ ops' = RemoveAt(ops, i)
         /\ pending' =
              IF op.kind = "sync3"
              THEN IF Truthy(data)
                   THEN Append(pending, Bundle("update3", op.user.id, FALSE, data, NoUser,
                                               <<>>, FALSE, FALSE, FALSE))
                   ELSE pending
              ELSE IF Truthy(data)
                   THEN Append(pending,
                               Bundle("append", 0, FALSE, NoUpdates,
                                      User3(DateNow, op.user.handle, op.user.platform,
                                            data.totalSolved, data.history),
                                      <<>>, FALSE, FALSE, TRUE))
                   ELSE Append(pending, Bundle("flags", 0, FALSE, NoUpdates, NoUser, <<>>,
                                               FALSE, FALSE, TRUE))
  /\ UNCHANGED <<version, users, rankedUsers, view, now, tz, events, call>>

\* --- the application as a state machine ----------------------------------

Init ==
  /\ version \in {"v2", "v3"}
  /\ users \in StoredCollections(version)
  /\ now = T0 + TicksPerDay - 1
  /\ tz \in AppZones
  /\ pending = <<>>
  /\ rankedUsers = rank(users, now, tz)
  /\ ops = <<>>
  /\ view = InitView
  /\ events = 0
  /\ call = NoCall

Next ==
  \/ \E id \in {users[i].id : i \in 1..Len(users)} : selectUser(id)
  \/ onBack
  \/ startEdit
  \/ manualSync
  \/ \E n \in Names, lc \in LcInputs, cf \in CfInputs : saveProfile(n, lc, cf)
  \/ \E n \in Names, lc \in LcInputs, cf \in CfInputs : handleAddUser(n, lc, cf)
  \/ deleteUser
  \/ \E i \in 1..Len(ops), resp \in LcResponses \cup CfResponses : fetchSettles(i, resp)
  \/ \E id \in {users[i].id : i \in 1..Len(users)} : syncUser(id)
  \/ refreshAll
  \/ \E h \in Handles3, p \in Platforms3 : handleAddUser3(h, p)
  \/ \E id \in {users[i].id : i \in 1..Len(users)} : removeUser(id)
  \/ \E i \in 1..Len(ops), resp \in LcResponses \cup CfResponses : fetchSettles3(i, resp)
  \/ Render
  \/ Tick

Spec == Init /\ [][Next]_vars


-----------------------------------------------------------------------------
\* The adapters as pure functions: one call per behaviour, its response drawn
\* from the bounded sets below, evaluated at time `now` in zone `tz`.

\* the application's variables while a pure function is under test
Idle ==
  /\ version = "v2"
  /\ users = <<>>
  /\ pending = <<>>
  /\ rankedUsers = <<>>
  /\ ops = <<>>
  /\ view = InitView
  /\ events = 0

IdleVars == <<version, users, pending, rankedUsers, ops, view, events, now, tz>>

\* timestamps on the day before StartDay and on StartDay (two on that day)
TestTimes == {T0 - TicksPerDay, T0, T0 + 1}
TestTs == {Num(t) : t \in TestTimes} \cup {Num(0), TsUndefined, TsNaN, TsHuge}

\* the problems of the test submissions, as <<contestId, index>>
TestProblems ==
  {<<<<"1">>, <<"A">>>>, <<<<"1">>, <<"B">>>>, <<<<"1">>, <<"1", "A">>>>, <<<<"1", "1">>, <<"A">>>>}

TestSubs ==
  {Sub(v, pb[1], pb[2], ts) : v \in {"OK", "WRONG_ANSWER"}, pb \in TestProblems,
                              ts \in TestTs}

\* a request may fail in transport, give a body that is no JSON, or a status
\* other than success
CfTestResponses ==
  {CfResponse("ok", "OK", TRUE, r) : r \in SeqsUpTo(TestSubs, MaxSubs)}
  \cup {CfResponse("transport", "OK", FALSE, <<>>), CfResponse("badjson", "OK", FALSE, <<>>),
        CfFailed, CfResponse("ok", "OK", FALSE, <<>>)}

\* Object.entries lists the integer keys in ascending order, then the others
CalendarOrder(cal) ==
  \A i, j \in 1..Len(cal) :
    i < j => /\ cal[j].ts.kind = "num" => (cal[i].ts.kind = "num" /\ cal[i].ts.v < cal[j].ts.v)
             /\ cal[i].ts.kind \in {"undefined", "huge"} => cal[i].ts # cal[j].ts

TestCalendars ==
  {c \in SeqsUpTo([ts : TestTs, count : {1, 2}], MaxEntries) : CalendarOrder(c)}

LcTestResponses ==
  {LcResponse("ok", "success", TRUE, 5, TRUE, c) : c \in TestCalendars}
  \cup {LcResponse("transport", "success", FALSE, 0, FALSE, <<>>),
        LcResponse("badjson", "success", FALSE, 0, FALSE, <<>>),
        LcFailed,
        LcResponse("ok", "success", FALSE, 0, FALSE, <<>>)}

AdapterCall(fn, resp) == [fn |-> fn, resp |-> resp, out |-> Undefined, done |-> FALSE]

InitAdapter ==
  /\ Idle
  /\ now = T0 + TicksPerDay - 1
  /\ tz \in TzOffsets
  /\ call \in {AdapterCall(fn, r) : fn \in {"fetchCodeforcesData", "fetchCodeforcesData3"},
                                   r \in CfTestResponses}
          \cup {AdapterCall("fetchLeetCodeData", r) : r \in LcTestResponses}

runFetchCodeforcesData ==
  /\ call.fn = "fetchCodeforcesData" /\ ~call.done
  /\ call' = [call EXCEPT !.out = fetchCodeforcesData(call.resp, now, tz), !.done = TRUE]
  /\ UNCHANGED IdleVars

runFetchCodeforcesData3 ==
  /\ call.fn = "fetchCodeforcesData3" /\ ~call.done
  /\ call' = [call EXCEPT !.out = fetchCodeforcesData3(call.resp), !.done = TRUE]
  /\ UNCHANGED IdleVars

runFetchLeetCodeData ==
  /\ call.fn = "fetchLeetCodeData" /\ ~call.done
  /\ call' = [call EXCEPT !.out = fetchLeetCodeData(call.resp, now, tz), !.done = TRUE]
  /\ UNCHANGED IdleVars

NextAdapter ==
  \/ runFetchCodeforcesData
  \/ runFetchCodeforcesData3
  \/ runFetchLeetCodeData

SpecAdapter == InitAdapter /\ [][NextAdapter]_vars


-----------------------------------------------------------------------------
\* Claims about the adapters (checked under SpecAdapter)

\* the sum of the counts a history holds for a date
CountAt(hist, date) ==
  SumSeq([i \in 1..Len(hist) |-> IF hist[i].date = date THEN hist[i].count ELSE 0])

\* the calendar dates the test responses can produce
TestDates == {DateOf(n) : n \in 0..(StartDay + 1)} \cup {InvalidDateStr}

AcceptedSubs(resp) == {i \in 1..Len(resp.result) : resp.result[i].verdict = "OK"}

\* a problem is identified by its contest id and its index
ProblemOf(sub) == <<sub.contestId, sub.index>>

\* the calendar day the called adapter attributes a timestamp to
DayOfTs(fn, ts) ==
  IF fn = "fetchCodeforcesData" THEN localDay(ts.v, tz) ELSE ts.v \div TicksPerDay

\* the day of the earliest acceptance of a problem in a response
FirstDay(fn, resp, pb) ==
  Min({DayOfTs(fn, resp.result[i].ts) :
         i \in {j \in AcceptedSubs(resp) : ProblemOf(resp.result[j]) = pb}})

CfCallDone ==
  /\ call.done
  /\ call.fn \in {"fetchCodeforcesData", "fetchCodeforcesData3"}
  /\ call.resp.net = "ok" /\ call.resp.status = "OK" /\ call.resp.hasResult

\* every accepted submission of the response carries a usable timestamp
AllTimed(resp) ==
  \A i \in AcceptedSubs(resp) : resp.result[i].ts.kind = "num" /\ resp.result[i].ts.v # 0

\* C3: in a Codeforces fetch a problem counts once, on the date of its first
\* acceptance: the history's count for a date is the number of distinct
\* problems whose earliest accepted submission falls on that date, so a
\* problem accepted on several dates counts on the first of them only.
C3_FirstAcceptanceOnly ==
  (CfCallDone /\ AllTimed(call.resp)) =>
    /\ Truthy(call.out)
    /\ \A d \in TestDates :
         CountAt(call.out.history, d) =
           IF d.valid
           THEN Cardinality({pb \in {ProblemOf(call.resp.result[i]) :
                                        i \in AcceptedSubs(call.resp)} :
                               DateOf(FirstDay(call.fn, call.resp, pb)) = d})
           ELSE 0

\* a timestamp that is missing or that does not parse as a number
BadTs(ts) == ts.kind \in {"undefined", "nan"}

\* the response without the records whose timestamp is missing or unparsable
WithoutBadTs(fn, resp) ==
  IF fn = "fetchLeetCodeData"
  THEN [resp EXCEPT !.calendar = SelectSeq(resp.calendar, LAMBDA e : ~BadTs(e.ts))]
  ELSE [resp EXCEPT !.result = SelectSeq(resp.result, LAMBDA sub : ~BadTs(sub.ts))]

RunAdapter(fn, resp) ==
  IF fn = "fetchLeetCodeData"
  THEN fetchLeetCodeData(resp, now, tz)
  ELSE fetchCodeforcesData(resp, now, tz)

\* C4: both adapters omit a record whose timestamp is missing or unparsable:
\* the fetch still succeeds, and its history is the history the same response
\* gives without those records, so no date (today's included) gains a count
\* from such a record.
C4_BadTimestampOmitted ==
  (/\ call.done
   /\ call.fn \in {"fetchCodeforcesData", "fetchLeetCodeData"}
   /\ Truthy(RunAdapter(call.fn, WithoutBadTs(call.fn, call.resp)))) =>
    /\ Truthy(call.out)
    /\ call.out.history = RunAdapter(call.fn, WithoutBadTs(call.fn, call.resp)).history


-----------------------------------------------------------------------------
\* Ranking and merging as pure functions: one call per behaviour over a user
\* or a collection drawn from the bounded sets below.

\* stored history records: in and around the week of StartDay, long before it,
\* and with a date that is no date
TestRecords ==
  { [date |-> DateOf(StartDay), count |-> 2],
    [date |-> DateOf(StartDay), count |-> 3],
    [date |-> DateOf(StartDay + 1), count |-> 1],
    [date |-> DateOf(StartDay - 7), count |-> 1],
    [date |-> InvalidDateStr, count |-> 1] }

TestStats == {Undefined, Null} \cup {Stats(0, h) : h \in SeqsUpTo(TestRecords, MaxRecords)}

TestUser(id, lc, cf) ==
  [id |-> id, username |-> "rival",
   handles |-> [leetcode |-> <<"a">>, codeforces |-> <<"c">>],
   data |-> [leetcode |-> lc, codeforces |-> cf]]

\* the stats the users of a ranked collection are drawn from
RankStats ==
  { Undefined,
    Stats(0, <<>>),
    Stats(0, <<[date |-> DateOf(StartDay), count |-> 2]>>),
    Stats(0, <<[date |-> DateOf(StartDay + 1), count |-> 1]>>) }

MaxRanked == 3

\* collections of v2 users whose ids are their positions
RankCollections ==
  UNION {{[i \in 1..k |-> TestUser(i, lc[i], cf[i])] :
            lc \in [1..k -> RankStats], cf \in [1..k -> {Undefined, Stats(0,
              <<[date |-> DateOf(StartDay), count |-> 2]>>)}]} : k \in 0..MaxRanked}

TestUser3(id, hist, logs) ==
  [id |-> id, username |-> <<"a">>, handle |-> <<"a">>, platform |-> "Codeforces",
   totalSolved |-> 0, history |-> hist, manualLogs |-> logs]

RankCollections3 ==
  UNION {{[i \in 1..k |-> TestUser3(i, h[i].history, logs[i])] :
            h \in [1..k -> RankStats \ {Undefined}],
            logs \in [1..k -> {<<>>, <<[date |-> DateOf(StartDay)]>>}]} : k \in 0..MaxRanked}

RankCall(fn, arg) == [fn |-> fn, arg |-> arg, out |-> <<>>, done |-> FALSE]

\* the last tick of StartDay and the first tick of the next day
RankTimes == {T0 + TicksPerDay - 1, T0 + TicksPerDay}

InitRank ==
  /\ Idle
  /\ now \in RankTimes
  /\ tz \in TzOffsets
  /\ call \in {RankCall("rankedUsers", c) : c \in RankCollections}
          \cup {RankCall("rankedUsers3", c) : c \in RankCollections3}
          \cup {RankCall(fn, TestUser(1, lc, cf)) :
                  fn \in {"calculateWeeklyScore", "combinedHistory"},
                  lc \in TestStats, cf \in TestStats}

runRankedUsers ==
  /\ call.fn = "rankedUsers" /\ ~call.done
  /\ call' = [call EXCEPT !.out = rankUsers(call.arg, now, tz), !.done = TRUE]
  /\ UNCHANGED IdleVars

runRankedUsers3 ==
  /\ call.fn = "rankedUsers3" /\ ~call.done
  /\ call' = [call EXCEPT !.out = rankUsers3(call.arg, now, tz), !.done = TRUE]
  /\ UNCHANGED IdleVars

runCalculateWeeklyScore ==
  /\ call.fn = "calculateWeeklyScore" /\ ~call.done
  /\ call' = [call EXCEPT !.out = calculateWeeklyScore(call.arg, now, tz), !.done = TRUE]
  /\ UNCHANGED IdleVars

runCombinedHistory ==
  /\ call.fn = "combinedHistory" /\ ~call.done
  /\ call' = [call EXCEPT !.out = historyMap(call.arg), !.done = TRUE]
  /\ UNCHANGED IdleVars

NextRank ==
  \/ runRankedUsers
  \/ runRankedUsers3
  \/ runCalculateWeeklyScore
  \/ runCombinedHistory

SpecRank == InitRank /\ [][NextRank]_vars


-----------------------------------------------------------------------------
\* Claims about ranking and merging (checked under SpecRank)

RankDone == call.done /\ call.fn \in {"rankedUsers", "rankedUsers3"}

\* C6: users whose weeklyScore is equal keep, in the ranking, the relative
\* order they have in the stored collection (ids are the stored positions);
\* this covers the collection whose scores are all zero.
C6_StableTies ==
  RankDone =>
    \A k1, k2 \in 1..Len(call.out) :
      (/\ call.out[k1].weeklyScore = call.out[k2].weeklyScore
       /\ call.out[k1].id < call.out[k2].id) => k1 < k2

\* three users: the last stored one scores highest, the first two tie above zero
C6_Witness ==
  /\ RankDone
  /\ Len(call.out) = 3
  /\ call.out[1].id = 3 /\ call.out[2].id = 1 /\ call.out[3].id = 2
  /\ call.out[2].weeklyScore = call.out[3].weeklyScore
  /\ call.out[3].weeklyScore > 0
  /\ call.out[1].weeklyScore > call.out[2].weeklyScore

\* the score the called version gives a stored user
ScoreOf(fn, user) ==
  IF fn = "rankedUsers" THEN calculateWeeklyScore(user, now, tz)
  ELSE weeklyScore3(user, now, tz)

\* C7: the ranking is a permutation of the stored users (every user appears
\* exactly once, none dropped or duplicated), each with its weeklyScore, in
\* order of non-increasing weeklyScore.
C7_PermutationSorted ==
  RankDone =>
    /\ Len(call.out) = Len(call.arg)
    /\ \A i \in 1..Len(call.arg) :
         Cardinality({k \in 1..Len(call.out) : withoutScore(call.out[k]) = call.arg[i]}) = 1
    /\ \A k \in 1..Len(call.out) :
         call.out[k].weeklyScore = ScoreOf(call.fn, withoutScore(call.out[k]))
    /\ \A k \in 1..(Len(call.out) - 1) :
         call.out[k].weeklyScore >= call.out[k + 1].weeklyScore

\* three users with three different scores, stored in ascending order of score
C7_Witness ==
  /\ RankDone
  /\ Len(call.out) = 3
  /\ call.out[1].id = 3 /\ call.out[2].id = 2 /\ call.out[3].id = 1
  /\ call.out[1].weeklyScore > call.out[2].weeklyScore
  /\ call.out[2].weeklyScore > call.out[3].weeklyScore

\* the sum of the merged counts of the dates in the current week window
WindowSum(map) ==
  SumSeq([i \in 1..Len(map) |->
            IF isDateInCurrentWeek(map[i].date, now, tz) THEN map[i].count ELSE 0])

\* C8: calculateWeeklyScore equals the sum, over the dates of the user's merged
\* activity map that lie in the current week window, of the merged count:
\* summing per platform gives what merging first and filtering afterwards gives.
C8_ScoreIsWindowSum ==
  (call.done /\ call.fn = "calculateWeeklyScore") =>
    call.out = WindowSum(historyMap(call.arg))

HistoryOf(d) == IF Truthy(d) THEN d.history ELSE <<>>

\* both platforms hold a record of one date in the window, and a record
\* outside the window exists
C8_Witness ==
  /\ call.done /\ call.fn = "calculateWeeklyScore"
  /\ call.out > 0
  /\ LET lc == HistoryOf(call.arg.data.leetcode)
         cf == HistoryOf(call.arg.data.codeforces)
     IN  /\ \E i \in 1..Len(lc), j \in 1..Len(cf) :
              /\ lc[i].date = cf[j].date
              /\ isDateInCurrentWeek(lc[i].date, now, tz)
         /\ \E i \in 1..Len(cf) : ~isDateInCurrentWeek(cf[i].date, now, tz)

DatesOf(hist) == {hist[i].date : i \in 1..Len(hist)}

\* C9: the merged map has exactly the dates present in either platform's
\* history, each once, with the sum of that date's counts over the platforms;
\* a user with no platform data yields the empty map.
C9_MergeIsUnionWithSums ==
  (call.done /\ call.fn = "combinedHistory") =>
    LET lc == HistoryOf(call.arg.data.leetcode)
        cf == HistoryOf(call.arg.data.codeforces)
    IN  /\ DatesOf(call.out) = DatesOf(lc) \cup DatesOf(cf)
        /\ \A i, j \in 1..Len(call.out) : call.out[i].date = call.out[j].date => i = j
        /\ \A i \in 1..Len(call.out) :
             call.out[i].count = CountAt(lc, call.out[i].date) + CountAt(cf, call.out[i].date)
        /\ (~Truthy(call.arg.data.leetcode) /\ ~Truthy(call.arg.data.codeforces)) =>
             call.out = <<>>

\* one platform holds {d1: 2}, the other {d1: 3, d2: 1}: the map is {d1: 5, d2: 1}
C9_Witness ==
  /\ call.done /\ call.fn = "combinedHistory"
  /\ call.arg.data.leetcode = Stats(0, <<[date |-> DateOf(StartDay), count |-> 2]>>)
  /\ call.arg.data.codeforces =
       Stats(0, <<[date |-> DateOf(StartDay), count |-> 3],
                  [date |-> DateOf(StartDay + 1), count |-> 1]>>)
  /\ call.out = <<[date |-> DateOf(StartDay), count |-> 5],
                  [date |-> DateOf(StartDay + 1), count |-> 1]>>


-----------------------------------------------------------------------------
\* Claims about the running application (checked under Spec)

PlatformKeys == {"leetcode", "codeforces"}

\* the collection once the first k queued batches are applied; the queue is
\* applied in order by the next render
Applied(k) == applyAll(users, SubSeq(pending, 1, k))

\* C1: when the result of a manual sync or of a profile save is applied, a
\* platform whose fetch failed keeps exactly the stats that were stored for
\* that user and platform immediately before the result was applied; this
\* includes operations that overlap another in-flight sync of the same user.
C1_FailedFetchKeepsStored ==
  \A k \in 1..Len(pending) :
    (pending[k].type = "update" /\ HasUser(Applied(k - 1), pending[k].id)) =>
      \A p \in PlatformKeys :
        pending[k].updates.fetched[p].tag = "null" =>
          findUser(Applied(k), pending[k].id).data[p] =
            findUser(Applied(k - 1), pending[k].id).data[p]

\* what applying the k-th queued batch stores as the user's own result: in v2
\* the stats of every platform whose fetch succeeded; in v3 the fetched
\* totalSolved, and the fetched history when it is not empty (syncUser keeps
\* the stored history otherwise)
OwnResultStored(k, before, after) ==
  IF pending[k].type = "update"
  THEN \A p \in PlatformKeys :
         Truthy(pending[k].updates.fetched[p]) => after.data[p] = pending[k].updates.fetched[p]
  ELSE /\ after.totalSolved = pending[k].updates.totalSolved
       /\ pending[k].updates.history # <<>> => after.history = pending[k].updates.history

HasFetched(b) ==
  IF b.type = "update" THEN \E p \in PlatformKeys : Truthy(b.updates.fetched[p])
  ELSE b.type = "update3"

C5_RankingOfCurrentWeek == rankedUsers = rank(users, now, tz)

\* C10: a profile that tracks no platform (both handles empty) has weekly
\* score 0 and an empty unified activity map, after any sequence of add, edit
\* and sync operations.
C10_UntrackedProfileIsEmpty ==
  version = "v2" =>
    \A i \in 1..Len(users) :
      (users[i].handles.leetcode = NoHandle /\ users[i].handles.codeforces = NoHandle) =>
        /\ calculateWeeklyScore(users[i], now, tz) = 0
        /\ historyMap(users[i]) = <<>>


-----------------------------------------------------------------------------
\* The week window as pure functions of the clock, the zone and a date string

MaxWeekDays == 35

\* the days the clock is read on: they span the turn of the year 1969/1970 and
\* the turn of the month January/February 1970
WeekTimes ==
  {d * TicksPerDay + k : d \in (StartDay - 14)..(StartDay - 14 + MaxWeekDays),
                         k \in 0..(TicksPerDay - 1)}

WeekDateArgs ==
  {DateOf(d) : d \in (StartDay - 22)..(StartDay - 6 + MaxWeekDays)} \cup {InvalidDateStr}

WeekCall(fn, arg) == [fn |-> fn, arg |-> arg, out |-> 0, done |-> FALSE]

InitWeek ==
  /\ Idle
  /\ now \in WeekTimes
  /\ tz \in TzOffsets
  /\ call \in {WeekCall("getStartOfWeek", InvalidDateStr)}
          \cup {WeekCall(fn, a) : fn \in {"isDateInCurrentWeek", "isDateInCurrentWeekUTC"},
                                  a \in WeekDateArgs}

runGetStartOfWeek ==
  /\ call.fn = "getStartOfWeek" /\ ~call.done
  /\ call' = [call EXCEPT !.out = getStartOfWeek(now, tz), !.done = TRUE]
  /\ UNCHANGED IdleVars

runIsDateInCurrentWeek ==
  /\ call.fn = "isDateInCurrentWeek" /\ ~call.done
  /\ call' = [call EXCEPT !.out = isDateInCurrentWeek(call.arg, now, tz), !.done = TRUE]
  /\ UNCHANGED IdleVars

\* isDateInCurrentWeek of v1 and v3
runIsDateInCurrentWeekUTC ==
  /\ call.fn = "isDateInCurrentWeekUTC" /\ ~call.done
  /\ call' = [call EXCEPT !.out = isDateInCurrentWeekUTC(call.arg, now, tz), !.done = TRUE]
  /\ UNCHANGED IdleVars

NextWeek ==
  \/ runGetStartOfWeek
  \/ runIsDateInCurrentWeek
  \/ runIsDateInCurrentWeekUTC

SpecWeek == InitWeek /\ [][NextWeek]_vars

\* the weekday of a calendar day, counted from Monday = 0
WeekdayFromMonday(n) == (n + 3) % 7

\* the Monday on or before a calendar day
MondayOnOrBefore(n) == n - WeekdayFromMonday(n)

\* the calendar day a date string names
DayOfDate(dateStr) == dayOfYMD(dateStr.y, dateStr.m, dateStr.d)

\* C11: isDateInCurrentWeek(date) is true exactly when the date lies in the
\* seven days that start with the Monday on or before today: true for that
\* Monday and for the following Sunday, false for the day before that Monday
\* and for the following Monday.
C11_WindowIsMondayToSunday ==
  (call.done /\ call.fn = "isDateInCurrentWeek") =>
    call.out =
      (/\ call.arg.valid
       /\ DayOfDate(call.arg) >= MondayOnOrBefore(localDay(now, tz))
       /\ DayOfDate(call.arg) < MondayOnOrBefore(localDay(now, tz)) + 7)

\* today is a Wednesday and the date is the Sunday that ends its window
C11_Witness ==
  /\ call.done /\ call.fn = "isDateInCurrentWeek"
  /\ call.out = TRUE
  /\ WeekdayFromMonday(localDay(now, tz)) = 2
  /\ call.arg.valid
  /\ DayOfDate(call.arg) = localDay(now, tz) + 4

\* C12: getStartOfWeek returns local midnight of a Monday at most 6 days before
\* today and not after today (start <= now < start + 7 days), also when that
\* Monday lies in the previous month or year; on a Sunday it is the Monday six
\* days earlier.
C12_StartIsMondayOnOrBefore ==
  (call.done /\ call.fn = "getStartOfWeek") =>
    /\ \E n \in (localDay(now, tz) - 6)..localDay(now, tz) :
         /\ call.out = localMidnight(n, tz)
         /\ WeekdayFromMonday(n) = 0
         /\ WeekdayFromMonday(localDay(now, tz)) = 6 => n = localDay(now, tz) - 6
    /\ call.out <= now
    /\ now < call.out + 7 * TicksPerDay

\* today is a Sunday in January whose Monday lies in December of the year before
C12_Witness ==
  /\ call.done /\ call.fn = "getStartOfWeek"
  /\ WeekdayFromMonday(localDay(now, tz)) = 6
  /\ call.out = localMidnight(localDay(now, tz) - 6, tz)
  /\ yearOfDay(localDay(now, tz) - 6) < yearOfDay(localDay(now, tz))


-----------------------------------------------------------------------------
\* extractHandle as a pure function of a raw input and a platform tag; an
\* absent input is falsy like the empty string and is held as the empty string

MaxPieces == 4

\* raw inputs are typed from these pieces
InputPieces == {<<" ">>, <<"a">>, <<"/">>, <<"u">>, LC_URL, CF_URL}

RECURSIVE Concat(_)
Concat(ps) == IF ps = <<>> THEN <<>> ELSE Head(ps) \o Concat(Tail(ps))

RawInputs == {Concat(ps) : ps \in SeqsUpTo(InputPieces, MaxPieces)}

PlatformTags == {"LeetCode", "Codeforces", "Other"}

\* stage 0: not called; 1: called on the raw input; 2: called again on the result
InitHandle ==
  /\ Idle
  /\ now = T0
  /\ tz = 0
  /\ call \in [fn : {"extractHandle"}, arg : RawInputs, platform : PlatformTags,
               out : {<<>>}, again : {<<>>}, stage : {0}]

runExtractHandle ==
  /\ call.fn = "extractHandle" /\ call.stage = 0
  /\ call' = [call EXCEPT !.out = extractHandle(call.arg, call.platform), !.stage = 1]
  /\ UNCHANGED IdleVars

runExtractHandleAgain ==
  /\ call.fn = "extractHandle" /\ call.stage = 1
  /\ call' = [call EXCEPT !.again = extractHandle(call.out, call.platform), !.stage = 2]
  /\ UNCHANGED IdleVars

NextHandle ==
  \/ runExtractHandle
  \/ runExtractHandleAgain

SpecHandle == InitHandle /\ [][NextHandle]_vars

\* C13: extractHandle is idempotent for every raw input and platform tag:
\* extractHandle(extractHandle(x, p), p) = extractHandle(x, p).
C13_ExtractHandleIdempotent ==
  (call.fn = "extractHandle" /\ call.stage = 2) => call.again = call.out

\* the input without its leading and trailing blanks
Trimmed(x) ==
  IF \A i \in 1..Len(x) : x[i] = " " THEN <<>>
  ELSE SubSeq(x, CHOOSE i \in 1..Len(x) : x[i] # " " /\ \A j \in 1..(i - 1) : x[j] = " ",
                 CHOOSE i \in 1..Len(x) : x[i] # " " /\ \A j \in (i + 1)..Len(x) : x[j] = " ")

\* the forms a profile URL of the platform begins with
UrlHeads(platform) ==
  CASE platform = "LeetCode"   -> {LC_URL \o <<"u", "/">>, LC_URL}
    [] platform = "Codeforces" -> {CF_URL}
    [] OTHER                   -> {}

\* h is a path segment of c that directly follows the head at position i
SegmentAt(c, head, i, h) ==
  /\ h # <<>>
  /\ \A k \in 1..Len(h) : h[k] # "/"
  /\ StartsWithAt(c, head \o h, i)
  /\ (i + Len(head) + Len(h) > Len(c) \/ c[i + Len(head) + Len(h)] = "/")

\* the positions at which c holds a profile URL of the platform
UrlAt(c, platform) ==
  {i \in 1..Len(c) : \E head \in UrlHeads(platform) :
      StartsWithAt(c, head, i) /\ i + Len(head) <= Len(c) /\ c[i + Len(head)] # "/"}

\* C14: extractHandle returns the empty string for an empty, absent or blank
\* input; for an input that holds a profile URL of the platform it returns the
\* handle segment of the first such URL (the path segment after the longest
\* matching head); for any other input it returns the input without its
\* leading and trailing blanks, otherwise unchanged.
C14_ExtractHandleResult ==
  (call.fn = "extractHandle" /\ call.stage >= 1) =>
    LET c == Trimmed(call.arg)
    IN  IF c = <<>> THEN call.out = <<>>
        ELSE IF UrlAt(c, call.platform) = {} THEN call.out = c
        ELSE LET i == Min(UrlAt(c, call.platform))
                 heads == {h \in UrlHeads(call.platform) :
                             StartsWithAt(c, h, i) /\ i + Len(h) <= Len(c)
                             /\ c[i + Len(h)] # "/"}
                 head == CHOOSE h \in heads : \A g \in heads : Len(g) <= Len(h)
             IN  SegmentAt(c, head, i, call.out)

\* a Codeforces profile URL typed after a blank and followed by a slash
C14_Witness ==
  /\ call.fn = "extractHandle" /\ call.stage >= 1
  /\ call.platform = "Codeforces"
  /\ call.arg = <<" ">> \o CF_URL \o <<"a", "/">>
  /\ call.out = <<"a">>


-----------------------------------------------------------------------------
\* Further claims about the adapters (checked under SpecAdapter)

\* the called Codeforces adapter applied to a response
RunCf(fn, resp) ==
  IF fn = "fetchCodeforcesData" THEN fetchCodeforcesData(resp, now, tz)
  ELSE fetchCodeforcesData3(resp)

\* the response without the submissions whose verdict is not OK
OnlyAccepted(resp) ==
  [resp EXCEPT !.result = SelectSeq(resp.result, LAMBDA sub : sub.verdict = "OK")]

\* C15: totalSolved of a Codeforces fetch is the number of distinct
\* (contestId, index) pairs with at least one submission of verdict OK, and a
\* submission with another verdict contributes neither to totalSolved nor to
\* any day of the history: the result is the one the accepted submissions
\* alone would give.
C15_TotalIsDistinctAccepted ==
  CfCallDone =>
    /\ Truthy(call.out) =>
         call.out.totalSolved =
           Cardinality({ProblemOf(call.resp.result[i]) : i \in AcceptedSubs(call.resp)})
    /\ call.out = RunCf(call.fn, OnlyAccepted(call.resp))

\* the outcomes of a request that are no answer about the handle: the request
\* fails in transport, the body does not parse, the body reports another
\* status than the platform's success status, or the body lacks the fields
\* the adapter reads
FailedOutcome(fn, resp) ==
  \/ resp.net # "ok"
  \/ IF fn = "fetchLeetCodeData"
     THEN resp.status # "success" \/ ~resp.hasTotal \/ ~resp.hasCalendar
     ELSE resp.status # "OK" \/ ~resp.hasResult

\* C19: for every failed outcome of the platform request, fetchCodeforcesData
\* and fetchLeetCodeData return null, and so no PlatformStats at all.
C19_FailureGivesNull ==
  (/\ call.done
   /\ call.fn \in {"fetchCodeforcesData", "fetchLeetCodeData"}
   /\ FailedOutcome(call.fn, call.resp)) =>
    call.out = Null

\* C18: every history an adapter returns holds at most one record per date
\* (a sync stores the returned history as it is).
C18_OneRecordPerDate ==
  (call.done /\ Truthy(call.out)) =>
    \A i, j \in 1..Len(call.out.history) :
      call.out.history[i].date = call.out.history[j].date => i = j

-----------------------------------------------------------------------------
\* Further claims about the application (checked under Spec)

\* a precedes b in the collection
Before(us, a, b) == \E i, j \in 1..Len(us) : i < j /\ us[i].id = a /\ us[j].id = b

IdsOf(us) == {us[i].id : i \in 1..Len(us)}

C17_StoredIsFetchResult ==
  \A k \in 1..Len(pending) :
    HasUser(Applied(k - 1), pending[k].id) =>
      /\ pending[k].type = "update" =>
           \A p \in PlatformKeys :
             Truthy(pending[k].updates.fetched[p]) =>
               /\ findUser(Applied(k), pending[k].id).data[p].totalSolved =
                    pending[k].updates.fetched[p].totalSolved
               /\ findUser(Applied(k), pending[k].id).data[p].history =
                    pending[k].updates.fetched[p].history
      /\ pending[k].type = "update3" =>
           /\ findUser(Applied(k), pending[k].id).totalSolved = pending[k].updates.totalSolved
           /\ findUser(Applied(k), pending[k].id).history = pending[k].updates.history

\* C16: when the result of a sync or save of one user is applied in which one
\* platform's fetch succeeded and the other's failed, the stored stats of the
\* successful platform become the fetched result and those of the failed
\* platform stay as they were, whichever of the two platforms failed.
C16_PartialSuccess ==
  \A k \in 1..Len(pending) :
    (pending[k].type = "update" /\ HasUser(Applied(k - 1), pending[k].id)) =>
      \A p, q \in PlatformKeys :
        (/\ p # q
         /\ Truthy(pending[k].updates.fetched[p])
         /\ pending[k].updates.fetched[q].tag = "null") =>
          /\ findUser(Applied(k), pending[k].id).data[p] = pending[k].updates.fetched[p]
          /\ findUser(Applied(k), pending[k].id).data[q] =
               findUser(Applied(k - 1), pending[k].id).data[q]

-----------------------------------------------------------------------------
\* The problem identifier (checked under SpecAdapter)

\* the identifier the called adapter builds for a submission
IdOf(fn, sub) == IF fn = "fetchCodeforcesData" THEN problemId(sub) ELSE problemId3(sub)

\* C30: the identifier built from (contestId, index) is injective: two accepted
\* submissions of a response get the same identifier only if their contestId
\* and their index are both equal, so totalSolved never falls below the number
\* of different accepted problems.
C30_ProblemIdInjective ==
  CfCallDone =>
    /\ \A i, j \in AcceptedSubs(call.resp) :
         IdOf(call.fn, call.resp.result[i]) = IdOf(call.fn, call.resp.result[j]) =>
           ProblemOf(call.resp.result[i]) = ProblemOf(call.resp.result[j])
    /\ Truthy(call.out) =>
         call.out.totalSolved >=
           Cardinality({ProblemOf(call.resp.result[i]) : i \in AcceptedSubs(call.resp)})

-----------------------------------------------------------------------------
\* Date strings as local days (checked under SpecWeek)

\* the called version of isDateInCurrentWeek at another time and offset
InWeek(fn, dateStr, t, off) ==
  IF fn = "isDateInCurrentWeek" THEN isDateInCurrentWeek(dateStr, t, off)
  ELSE isDateInCurrentWeekUTC(dateStr, t, off)

\* C29: in each version, whether isDateInCurrentWeek accepts a date string on
\* a local day is the same for every UTC offset, and the date of the Monday
\* that starts the current week is accepted for every offset.
C29_DateIsLocalDay ==
  (call.done /\ call.fn \in {"isDateInCurrentWeek", "isDateInCurrentWeekUTC"}) =>
    /\ \A off \in TzOffsets : \A t \in WeekTimes :
         localDay(t, off) = localDay(now, tz) => InWeek(call.fn, call.arg, t, off) = call.out
    /\ (call.arg.valid /\ DayOfDate(call.arg) = MondayOnOrBefore(localDay(now, tz))) =>
         call.out = TRUE

-----------------------------------------------------------------------------
\* Claims about identity, handles and removal (checked under Spec)

\* C23: in every reachable state the profiles of the collection have pairwise
\* distinct ids, and applying the result of an edit or a sync changes the id of
\* no profile.
C23_DistinctStableIds ==
  /\ \A i, j \in 1..Len(users) : users[i].id = users[j].id => i = j
  /\ \A k \in 1..Len(pending) :
       pending[k].type \in {"update", "update3"} =>
         /\ Len(Applied(k)) = Len(Applied(k - 1))
         /\ \A i \in 1..Len(Applied(k)) : Applied(k)[i].id = Applied(k - 1)[i].id

\* C24: when the result of a profile save that changes a platform's handle
\* to another handle is applied, the stats stored for that platform are the
\* ones fetched for the new handle, or none: the previous handle's stats do
\* not remain stored under the new handle, whether the fetch succeeded or not.
C24_StatsBelongToHandle ==
  \A k \in 1..Len(pending) :
    (/\ pending[k].type = "update" /\ pending[k].full
     /\ HasUser(Applied(k - 1), pending[k].id)) =>
      \A p \in PlatformKeys :
        (/\ pending[k].updates.handles[p] # NoHandle
         /\ pending[k].updates.handles[p] #
              findUser(Applied(k - 1), pending[k].id).handles[p]) =>
          IF Truthy(pending[k].updates.fetched[p])
          THEN findUser(Applied(k), pending[k].id).data[p] = pending[k].updates.fetched[p]
          ELSE ~Truthy(findUser(Applied(k), pending[k].id).data[p])

\* C25: at any time at most one sync or profile save is in flight for a given
\* user.
C25_OneSyncPerUser ==
  \A i, j \in 1..Len(ops) :
    (/\ ops[i].kind \in {"sync", "save", "sync3"}
     /\ ops[j].kind \in {"sync", "save", "sync3"}
     /\ ops[i].user.id = ops[j].user.id) => i = j

\* C26: when the result of a sync or save is applied after its user has been
\* removed, the user is not created again and no other profile changes: the
\* collection after the apply is the collection before it.
C26_LateResultChangesNothing ==
  \A k \in 1..Len(pending) :
    (/\ pending[k].type \in {"update", "update3"}
     /\ ~HasUser(Applied(k - 1), pending[k].id)) =>
      Applied(k) = Applied(k - 1)

\* a fetched result is queued for a user that is no longer in the collection,
\* which still holds another profile
C26_Witness ==
  \E k \in 1..Len(pending) :
    /\ pending[k].type \in {"update", "update3"}
    /\ HasFetched(pending[k])
    /\ ~HasUser(Applied(k - 1), pending[k].id)
    /\ Applied(k - 1) # <<>>

\* C27: a step that removes a user removes exactly the profiles with that id
\* and leaves every other profile of the current collection (the stored one
\* with every queued result applied) present and unchanged, a profile added
\* or synced just before the removal takes effect included.
C27_RemoveOnlyThatUser ==
  [][\A id \in IdsOf(users) :
       ~HasUser(users', id) => users' = filterUser(applyAll(users, pending), id)]_vars

-----------------------------------------------------------------------------
\* Syncs and saves of v2 under fair scheduling: every platform request returns
\* a response or an error, and React renders what is queued

InitSync ==
  /\ version = "v2"
  /\ users \in {<<Stored2A>>, <<Stored2A, Stored2B>>}
  /\ now = T0 + TicksPerDay - 1
  /\ tz = 0
  /\ pending = <<>>
  /\ rankedUsers = rank(users, now, tz)
  /\ ops = <<>>
  /\ view = InitView
  /\ events = 0
  /\ call = NoCall

NextSync ==
  \/ \E id \in {users[i].id : i \in 1..Len(users)} : selectUser(id)
  \/ onBack
  \/ startEdit
  \/ manualSync
  \/ \E n \in Names, lc \in LcInputs, cf \in CfInputs : saveProfile(n, lc, cf)
  \/ \E i \in 1..Len(ops), resp \in LcResponses \cup CfResponses : fetchSettles(i, resp)
  \/ Render

SpecSync ==
  /\ InitSync
  /\ [][NextSync]_vars
  /\ \A i \in 1..MaxOps :
       WF_vars(\E resp \in LcResponses \cup CfResponses : fetchSettles(i, resp))
  /\ WF_vars(Render)

\* C22: provided each platform request eventually returns, every sync or save
\* that starts eventually ends with its result applied or discarded (no
\* handler stays in flight and nothing stays queued), and the busy flag
\* isSyncing it raised is cleared again.
C22_SyncEnds ==
  /\ (ops # <<>>) ~> (ops = <<>> /\ pending = <<>>)
  /\ view.isSyncing ~> ~view.isSyncing

\* a sync of the open profile has ended: its Codeforces result is stored (the
\* stored profile had none) and the busy flag is down
C22_Witness ==
  /\ Mounted
  /\ ~view.isSyncing
  /\ ops = <<>> /\ pending = <<>>
  /\ view.selectedUserId = 1
  /\ Truthy(findUser(users, 1).data.codeforces)

-----------------------------------------------------------------------------
\* The persisted store of v2: localStorage item 'code_rivals_users_v2'.
\* A stored value is absent ("missing"), a text JSON.parse rejects ("garbage")
\* or the JSON text of a collection ("json").  JSON.stringify leaves out a
\* property whose value is undefined; reading a property that is absent gives
\* undefined.

MaxSets == 2

MissingItem == [kind |-> "missing", value |-> <<>>]
GarbageItem == [kind |-> "garbage", value |-> <<>>]

\* JSON.stringify of a PlatformStats value or null
jsonStats(st) ==
  IF st.tag = "null" THEN [j |-> "null", total |-> <<>>, history |-> <<>>]
  ELSE [j |-> "object",
        total |-> IF st.totalSolved = UndefinedTotal THEN <<>> ELSE <<st.totalSolved>>,
        history |-> st.history]

jsonUser(u) ==
  [id |-> u.id, username |-> u.username, handles |-> u.handles,
   data |-> [p \in {q \in {"leetcode", "codeforces"} : u.data[q].tag # "undefined"} |->
               jsonStats(u.data[p])]]

\* JSON.stringify(users)
stringify(us) == [kind |-> "json", value |-> [i \in 1..Len(us) |-> jsonUser(us[i])]]

\* variant: a platform key that is absent is read as null
parsedStatsAbsentIsNull(data, p) ==
  IF p \notin DOMAIN data THEN Null
  ELSE IF data[p].j = "null" THEN Null
  ELSE Stats(IF data[p].total = <<>> THEN UndefinedTotal ELSE data[p].total[1],
             data[p].history)

\* user.data.<p> of a parsed profile
parsedStats(data, p) ==
  IF p \notin DOMAIN data THEN Undefined
  ELSE IF data[p].j = "null" THEN Null
  ELSE Stats(IF data[p].total = <<>> THEN UndefinedTotal ELSE data[p].total[1],
             data[p].history)

parsedUser(ju) ==
  [id |-> ju.id, username |-> ju.username, handles |-> ju.handles,
   data |-> [p \in {"leetcode", "codeforces"} |-> parsedStats(ju.data, p)]]

\* the initializer of the users state:
\*   try { saved = getItem(...); return saved ? JSON.parse(saved) : [] } catch (e) { return [] }
loadUsers(saved) ==
  IF saved.kind = "missing" THEN <<>>
  ELSE IF saved.kind = "garbage" THEN <<>>
  ELSE [i \in 1..Len(saved.value) |-> parsedUser(saved.value[i])]

\* the stats a stored profile may hold
StoreStats == {Undefined, Null, Stats(UndefinedTotal, <<>>), StoredLc}

StoreCollections ==
  UNION {{[i \in 1..k |-> TestUser(i, lc[i], cf[i])] :
            lc \in [1..k -> StoreStats], cf \in [1..k -> {Undefined, Null}]} : k \in 0..2}

InitStore ==
  /\ Idle
  /\ now = T0
  /\ tz = 0
  /\ call \in {[stage |-> "stored", store |-> v, users |-> <<>>, sets |-> 0] :
                 v \in {MissingItem, GarbageItem} \cup {stringify(c) : c \in StoreCollections}}

\* the page loads: the state is initialized from the store, and the persist
\* effect of the first render writes it back
mountApp ==
  /\ call.stage = "stored"
  /\ call' = [call EXCEPT !.stage = "running",
                          !.users = loadUsers(call.store),
                          !.store = stringify(loadUsers(call.store))]
  /\ UNCHANGED IdleVars

\* an add, edit, sync or remove settles: setUsers gives a new collection and
\* the effect on [users] writes it
setUsersAndPersist(c) ==
  /\ call.stage = "running"
  /\ call.sets < MaxSets
  /\ call' = [call EXCEPT !.users = c, !.store = stringify(c), !.sets = @ + 1]
  /\ UNCHANGED IdleVars

\* the page is closed; the store stays
unloadApp ==
  /\ call.stage = "running"
  /\ call.sets = MaxSets
  /\ call' = [call EXCEPT !.stage = "stored", !.users = <<>>, !.sets = 0]
  /\ UNCHANGED IdleVars

NextStore ==
  \/ mountApp
  \/ \E c \in StoreCollections : setUsersAndPersist(c)
  \/ unloadApp

SpecStore == InitStore /\ [][NextStore]_vars

\* C21: while the application runs, the stored value is the text of the full
\* current collection and loading it gives the same collection; a missing or
\* unparsable stored value loads as the empty collection.
C21_StoreRoundTrip ==
  /\ [](call.stage = "running" =>
         /\ call.store = stringify(call.users)
         /\ loadUsers(call.store) = call.users)
  /\ [][(call.stage = "stored" /\ call.store.kind \in {"missing", "garbage"}
         /\ call'.stage = "running") => call'.users = <<>>]_vars

\* a collection was loaded from its stored text: a profile with a platform
\* that is not tracked and stats without totalSolved, a profile with null stats
C21_Witness ==
  /\ call.stage = "running"
  /\ call.sets = 0
  /\ Len(call.users) = 2
  /\ call.users[1].data.leetcode = Stats(UndefinedTotal, <<>>)
  /\ call.users[1].data.codeforces = Undefined
  /\ call.users[2].data.codeforces = Null

-----------------------------------------------------------------------------
\* The manual-log version (v1): submitLog and the weekly count of the leaderboard

MaxLogDays == 7

\* newHistory of submitLog: the record of today gets count + 1, or a record
\* {date: today, count: 1} is pushed
logHistory(history, today) ==
  IF \E i \in 1..Len(history) : history[i].date = today
  THEN LET existingIdx == Min({i \in 1..Len(history) : history[i].date = today})
       IN  [history EXCEPT ![existingIdx].count = @ + 1]
  ELSE Append(history, [date |-> today, count |-> 1])

\* the updater of submitLog; today = new Date().toISOString().split('T')[0]
submitLog(prevUsers, logUserId, t) ==
  [i \in 1..Len(prevUsers) |->
     IF prevUsers[i].id = logUserId
     THEN [prevUsers[i] EXCEPT
             !.totalSolved = @ + 1,
             !.history = logHistory(@, toISODate(t)),
             !.manualLogs = Append(@, [date |-> toISODate(t)])]
     ELSE prevUsers[i]]

\* weeklyCount of WeeklyLeaderboard
weeklyCount(user, t, off) == weeklyCount3(user.history, t, off)

\* the clock readings of a week that starts with a Sunday
LogTimes ==
  {d * TicksPerDay + k : d \in StartDay..(StartDay + MaxLogDays), k \in 0..(TicksPerDay - 1)}

LogHistories ==
  {<<>>, <<[date |-> DateOf(StartDay + 1), count |-> 1]>>,
         <<[date |-> DateOf(StartDay + 3), count |-> 2]>>}

LogUser(id, hist) ==
  [id |-> id, username |-> <<"a">>, handle |-> <<"a">>, platform |-> "LeetCode",
   totalSolved |-> 3, streak |-> 0, history |-> hist, manualLogs |-> <<>>]

LogCollections ==
  {<<LogUser(1, h)>> : h \in LogHistories}
  \cup {<<LogUser(1, h1), LogUser(2, h2)>> : h1 \in LogHistories, h2 \in LogHistories}

InitLog ==
  /\ Idle
  /\ now \in LogTimes
  /\ tz \in TzOffsets
  /\ call \in {[fn |-> "submitLog", arg |-> c, logUserId |-> id, out |-> <<>>, done |-> FALSE] :
                 c \in LogCollections, id \in {1, 2}}

runSubmitLog ==
  /\ call.fn = "submitLog" /\ ~call.done
  /\ call' = [call EXCEPT !.out = submitLog(call.arg, call.logUserId, now), !.done = TRUE]
  /\ UNCHANGED IdleVars

NextLog == runSubmitLog

SpecLog == InitLog /\ [][NextLog]_vars

\* C28: submitting a log for a user raises that user's weekly score
\* (weeklyCount) by exactly 1 and that user's totalSolved by exactly 1, at
\* every time of day and in every zone, and changes no other user's record.
C28_LogAddsOnePoint ==
  (call.fn = "submitLog" /\ call.done) =>
    /\ Len(call.out) = Len(call.arg)
    /\ \A i \in 1..Len(call.arg) :
         IF call.arg[i].id = call.logUserId
         THEN /\ weeklyCount(call.out[i], now, tz) = weeklyCount(call.arg[i], now, tz) + 1
              /\ call.out[i].totalSolved = call.arg[i].totalSolved + 1
         ELSE call.out[i] = call.arg[i]


====
